---- MODULE Spec2Model ----
(***************************************************************************)
(* Model of the stocks-loader pipelines of ZiggoNova:                      *)
(*   agent_to_supabase.py  normalize_rows -> supabase_upsert -> summary    *)
(*                         (REST path, table intradaybullishstocks)        *)
(*   etl.py                normalize -> upsert                             *)
(*                         (SQL path, table public.bullishstocks)          *)
(* A row is modelled by its two key columns, the two other columns that    *)
(* normalize_rows treats as essential, and lastgbp, which stands for the   *)
(* optional numeric columns. Timestamps are minutes, in UTC.               *)
(***************************************************************************)
EXTENDS Integers, Sequences, FiniteSets, TLC

VARIABLES
    clock,       \* the latest UTC time a run has read (datetime.utcnow)
    batch_size,  \* BATCH_SIZE, read from the environment at import
    faults,      \* failures the network and the store may still inject
    table,       \* per path, the rows of the target table
    path,        \* per run, the pipeline it executes: "rest" or "sql"
    raw,         \* per run, the records its row source returned
    pc,          \* per run: fetched, upsert, done, failed
    rows,        \* per run, the normalized rows
    i,           \* supabase_upsert: offset of the current chunk
    attempt,     \* supabase_upsert: attempt number of the current chunk
    total,       \* supabase_upsert: rows counted as written
    last,        \* per run, its most recent write attempt (history)
    err,         \* per run, the exception that ended it
    summary,     \* per run, what it printed
    lastWrite,   \* per path and key, the run and row committed last (history)
    lastCommit,  \* the most recent committed write (history)
    normAt,      \* per run, the time read when it normalized (history)
    baseline,    \* per run, its table when it normalized (history)
    reran        \* per run, whether the other run had completed when it normalized (history)

vars == <<clock, batch_size, faults, table, path, raw, pc, rows, i, attempt, total,
          last, err, summary, lastWrite, lastCommit, normAt, baseline, reran>>

\* ------------------------------------------------------------------ bounds
MaxRows == 2
MaxFaults == 3
ConcFaults == 1

\* The values of BATCH_SIZE: one row a chunk, or two.
BatchSizes == {1, 2}

Runs == {1, 2}
Paths == {"rest", "sql"}
Other(r) == 3 - r

\* ------------------------------------------------------------------ values
\* Python None, NaN and NaT in a numeric or timestamp column.
None == -1
\* A raw value the parser (dtparser.parse, float, pd.to_datetime) rejects.
Unparseable == -2
\* None in a text column.
NoneStr == "None"

Min(a, b) == IF a < b THEN a ELSE b

\* The times a run may read: 01:15, 01:45 and 02:15.
ClockTimes == {75, 105, 135}

Row(t, k, n, u, p) ==
    [tradedatehour |-> t, ticker |-> k, stockname |-> n, sourceurl |-> u, lastgbp |-> p]

\* Raw records of the normalization specification: an absent, on-the-hour or
\* off-the-hour tradedatehour with an absent or numeric lastgbp, or both of
\* them unparseable, and every combination of present and absent ticker,
\* stockname and sourceurl.
RawRecords ==
    {Row(v[1], k, n, u, v[2]) :
        v \in ({None, 60, 90} \X {None, 1}) \cup {<<Unparseable, Unparseable>>},
        k \in {NoneStr, "A"}, n \in {NoneStr, "n"}, u \in {NoneStr, "u"}}

\* Raw records of the concurrency specification: complete records of one
\* ticker, whose bucket is given or falls back to the clock; the two with
\* the given bucket differ in both columns outside the key.
ConcRecords ==
    {Row(None, "A", "n", "u", 1), Row(60, "A", "n", "u", 1), Row(60, "A", "m", "u", None)}

\* The same picks with the other values in the columns outside the key.
Revised(b) ==
    [k \in DOMAIN b |->
        IF b[k].stockname = "n"
          THEN [b[k] EXCEPT !.stockname = "m", !.lastgbp = None]
          ELSE [b[k] EXCEPT !.stockname = "n", !.lastgbp = 1]]

Batches(S) == UNION {[1..n -> S] : n \in 0..MaxRows}

\* ------------------------------------------------------------------ normalize_rows
\* to_iso_hour without dt.replace(minute=0, second=0, microsecond=0).
to_iso_hour_unfloored(ts) ==
    IF ts = None \/ ts = Unparseable THEN None ELSE ts

to_iso_hour(ts) ==
    IF ts = None \/ ts = Unparseable THEN None ELSE (ts \div 60) * 60

to_num(x) ==
    IF x = None \/ x = Unparseable THEN None ELSE x

coerce(rec, now) ==
    Row(IF to_iso_hour(rec.tradedatehour) # None
          THEN to_iso_hour(rec.tradedatehour) ELSE to_iso_hour(now),
        rec.ticker, rec.stockname, rec.sourceurl, to_num(rec.lastgbp))

dropna_keeps(row) ==
    /\ row.tradedatehour # None
    /\ row.ticker # NoneStr
    /\ row.stockname # NoneStr
    /\ row.sourceurl # NoneStr

normalize_rows(rs, now) ==
    IF rs = <<>> THEN <<>>
    ELSE SelectSeq([k \in DOMAIN rs |-> coerce(rs[k], now)], dropna_keeps)

\* ------------------------------------------------------------------ etl.normalize
to_datetime(ts) ==
    IF ts = None \/ ts = Unparseable THEN None ELSE ts

normalize(rs) ==
    [k \in DOMAIN rs |->
        Row(to_datetime(rs[k].tradedatehour), rs[k].ticker, rs[k].stockname,
            rs[k].sourceurl, rs[k].lastgbp)]

\* ------------------------------------------------------------------ the store
SameKey(a, b) == a.tradedatehour = b.tradedatehour /\ a.ticker = b.ticker

KeyOf(a) == <<a.tradedatehour, a.ticker>>

RowsOf(s) == {s[k] : k \in DOMAIN s}

\* The table's constraints: key columns NOT NULL, numeric columns numeric,
\* and one statement never writes one key twice (the staging table carries
\* the primary key; ON CONFLICT DO UPDATE cannot affect a row a second time).
Accepts(s) ==
    /\ \A k \in DOMAIN s :
          /\ s[k].tradedatehour # None
          /\ s[k].ticker # NoneStr
          /\ s[k].lastgbp # Unparseable
    /\ \A j, k \in DOMAIN s : j # k => ~SameKey(s[j], s[k])

\* A merge that patches: a null in the incoming row keeps the stored value.
MergeCoalesce(tbl, s) ==
    {old \in tbl : \A new \in RowsOf(s) : ~SameKey(old, new)}
    \cup {IF x.lastgbp = None /\ \E old \in tbl : SameKey(old, x)
            THEN [x EXCEPT !.lastgbp = (CHOOSE old \in tbl : SameKey(old, x)).lastgbp]
            ELSE x : x \in RowsOf(s)}

\* A merge that keeps the stored row on conflict (ON CONFLICT DO NOTHING,
\* resolution=ignore-duplicates).
MergeIgnoreDuplicates(tbl, s) ==
    tbl \cup {x \in RowsOf(s) : \A old \in tbl : ~SameKey(old, x)}

\* INSERT ... ON CONFLICT (tradedatehour, ticker) DO UPDATE SET every other
\* column = EXCLUDED.column; on the REST path, Prefer: resolution=merge-duplicates.
Merge(tbl, s) ==
    {old \in tbl : \A new \in RowsOf(s) : ~SameKey(old, new)} \cup RowsOf(s)

Chunk(r) == SubSeq(rows[r], i[r] + 1, Min(i[r] + batch_size, Len(rows[r])))

\* ------------------------------------------------------------------ Init
NoEntry == [offset |-> 0, attempt |-> 0, outcome |-> "none", status |-> 0, slept |-> 0]
NoErr == [kind |-> "none", status |-> 0]
NoSummary == [printed |-> FALSE, received |-> 0, normalized |-> 0, upserted |-> 0]
NoCommit == [run |-> 0, path |-> "none", rows |-> <<>>]

InitRuns ==
    /\ clock = 75
    /\ batch_size \in BatchSizes
    /\ table = [p \in Paths |-> {}]
    /\ pc = [r \in Runs |-> "fetched"]
    /\ rows = [r \in Runs |-> <<>>]
    /\ i = [r \in Runs |-> 0]
    /\ attempt = [r \in Runs |-> 0]
    /\ total = [r \in Runs |-> 0]
    /\ last = [r \in Runs |-> NoEntry]
    /\ err = [r \in Runs |-> NoErr]
    /\ summary = [r \in Runs |-> NoSummary]
    /\ lastWrite = [p \in Paths |-> <<>>]
    /\ lastCommit = NoCommit
    /\ normAt = [r \in Runs |-> 0]
    /\ baseline = [r \in Runs |-> {}]
    /\ reran = [r \in Runs |-> FALSE]

\* One batch given to both pipelines, each writing its own, empty table.
Init ==
    /\ InitRuns
    /\ faults = MaxFaults
    /\ path = [r \in Runs |-> IF r = 1 THEN "rest" ELSE "sql"]
    /\ \E b \in Batches(RawRecords) : raw = [r \in Runs |-> b]

\* Two runs of one pipeline: the second is given the batch of the first, as
\* it is or revised.
InitConc ==
    /\ InitRuns
    /\ faults = ConcFaults
    /\ \E p \in Paths : path = [r \in Runs |-> p]
    /\ \E b \in Batches(ConcRecords) :
          \E c \in {b, Revised(b)} : raw = [r \in Runs |-> IF r = 1 THEN b ELSE c]

\* ------------------------------------------------------------------ main / __main__
\* The summary main prints once supabase_upsert has returned.
Printed(r, normalized, upserted) ==
    [printed |-> TRUE, received |-> Len(raw[r]), normalized |-> normalized,
     upserted |-> upserted]

\* rows = normalize_rows(model_rows); with no rows supabase_upsert returns 0
\* at once and main prints the summary.
NormalizeRest(r) ==
    /\ pc[r] = "fetched" /\ path[r] = "rest"
    /\ \E now \in ClockTimes :
          /\ now >= clock
          /\ clock' = now
          /\ normAt' = [normAt EXCEPT ![r] = now]
          /\ rows' = [rows EXCEPT ![r] = normalize_rows(raw[r], now)]
    /\ IF rows'[r] = <<>>
         THEN pc' = [pc EXCEPT ![r] = "done"] /\ summary' = [summary EXCEPT ![r] = Printed(r, 0, 0)]
         ELSE pc' = [pc EXCEPT ![r] = "upsert"] /\ UNCHANGED summary
    /\ baseline' = [baseline EXCEPT ![r] = table[path[r]]]
    /\ reran' = [reran EXCEPT ![r] = pc[Other(r)] = "done"]
    /\ UNCHANGED <<batch_size, faults, table, path, raw, i, attempt, total, last, err,
                   lastWrite, lastCommit>>

\* df = normalize(rows)
NormalizeEtl(r) ==
    /\ pc[r] = "fetched" /\ path[r] = "sql"
    /\ rows' = [rows EXCEPT ![r] = normalize(raw[r])]
    /\ pc' = [pc EXCEPT ![r] = "upsert"]
    /\ normAt' = [normAt EXCEPT ![r] = clock]
    /\ baseline' = [baseline EXCEPT ![r] = table[path[r]]]
    /\ reran' = [reran EXCEPT ![r] = pc[Other(r)] = "done"]
    /\ UNCHANGED <<clock, batch_size, faults, table, path, raw, i, attempt, total, last,
                   err, summary, lastWrite, lastCommit>>

Commit(r, s) ==
    /\ table' = [table EXCEPT ![path[r]] = Merge(@, s)]
    /\ lastWrite' = [lastWrite EXCEPT ![path[r]] =
                        [key \in DOMAIN @ \cup {KeyOf(x) : x \in RowsOf(s)} |->
                            IF \E x \in RowsOf(s) : KeyOf(x) = key
                              THEN [run |-> r, row |-> CHOOSE x \in RowsOf(s) : KeyOf(x) = key]
                              ELSE @[key]]]
    /\ lastCommit' = [run |-> r, path |-> path[r], rows |-> s]

Entry(r, outcome, status, slept) ==
    [offset |-> i[r], attempt |-> attempt[r], outcome |-> outcome, status |-> status,
     slept |-> slept]

\* The except clause of supabase_upsert: sleep and go on, or re-raise.
Except(r, outcome, e) ==
    IF attempt[r] < 2
      THEN /\ last' = [last EXCEPT ![r] = Entry(r, outcome, e.status, 2 ^ attempt[r])]
           /\ attempt' = [attempt EXCEPT ![r] = @ + 1]
           /\ UNCHANGED <<pc, err>>
      ELSE /\ last' = [last EXCEPT ![r] = Entry(r, outcome, e.status, 0)]
           /\ pc' = [pc EXCEPT ![r] = "failed"]
           /\ err' = [err EXCEPT ![r] = e]
           /\ UNCHANGED attempt

\* rq.post answered 200, 201 or 204; after the last chunk supabase_upsert
\* returns total and main prints the summary.
PostAccepted(r) ==
    /\ pc[r] = "upsert" /\ path[r] = "rest"
    /\ Accepts(Chunk(r))
    /\ Commit(r, Chunk(r))
    /\ total' = [total EXCEPT ![r] = @ + Len(Chunk(r))]
    /\ last' = [last EXCEPT ![r] = Entry(r, "accepted", 201, 0)]
    /\ i' = [i EXCEPT ![r] = @ + batch_size]
    /\ attempt' = [attempt EXCEPT ![r] = 0]
    /\ IF i'[r] >= Len(rows[r])
         THEN /\ pc' = [pc EXCEPT ![r] = "done"]
              /\ summary' = [summary EXCEPT ![r] = Printed(r, Len(rows[r]), total'[r])]
         ELSE UNCHANGED <<pc, summary>>
    /\ UNCHANGED <<clock, batch_size, faults, path, raw, rows, err, normAt, baseline, reran>>

\* rq.post answered 400: the store refuses the chunk, or a client error is injected.
PostRejected(r) ==
    /\ pc[r] = "upsert" /\ path[r] = "rest"
    /\ \/ ~Accepts(Chunk(r)) /\ UNCHANGED faults
       \/ faults > 0 /\ faults' = faults - 1
    /\ Except(r, "rejected", [kind |-> "RuntimeError", status |-> 400])
    /\ UNCHANGED <<clock, batch_size, table, path, raw, rows, i, total, summary,
                   lastWrite, lastCommit, normAt, baseline, reran>>

\* rq.post answered 503.
PostUnavailable(r) ==
    /\ pc[r] = "upsert" /\ path[r] = "rest"
    /\ faults > 0 /\ faults' = faults - 1
    /\ Except(r, "unavailable", [kind |-> "RuntimeError", status |-> 503])
    /\ UNCHANGED <<clock, batch_size, table, path, raw, rows, i, total, summary,
                   lastWrite, lastCommit, normAt, baseline, reran>>

\* rq.post raised (connection error, timeout); the store may have applied the write.
PostRaised(r) ==
    /\ pc[r] = "upsert" /\ path[r] = "rest"
    /\ faults > 0 /\ faults' = faults - 1
    /\ \/ UNCHANGED <<table, lastWrite, lastCommit>>
       \/ Accepts(Chunk(r)) /\ Commit(r, Chunk(r))
    /\ Except(r, "raised", [kind |-> "RequestException", status |-> 0])
    /\ UNCHANGED <<clock, batch_size, path, raw, rows, i, total, summary, normAt,
                   baseline, reran>>

\* etl.upsert: the transaction commits; "Upserted n rows."
EtlCommitted(r) ==
    /\ pc[r] = "upsert" /\ path[r] = "sql"
    /\ Accepts(rows[r])
    /\ Commit(r, rows[r])
    /\ summary' = [summary EXCEPT ![r] = Printed(r, Len(rows[r]), Len(rows[r]))]
    /\ pc' = [pc EXCEPT ![r] = "done"]
    /\ UNCHANGED <<clock, batch_size, faults, path, raw, rows, i, attempt, total, last,
                   err, normAt, baseline, reran>>

\* etl.upsert: a statement fails and the transaction rolls back.
EtlRolledBack(r) ==
    /\ pc[r] = "upsert" /\ path[r] = "sql"
    /\ \/ ~Accepts(rows[r]) /\ UNCHANGED faults
       \/ faults > 0 /\ faults' = faults - 1
    /\ pc' = [pc EXCEPT ![r] = "failed"]
    /\ err' = [err EXCEPT ![r] = [kind |-> "DBAPIError", status |-> 0]]
    /\ UNCHANGED <<clock, batch_size, table, path, raw, rows, i, attempt, total, last,
                   summary, lastWrite, lastCommit, normAt, baseline, reran>>

Next ==
    \E r \in Runs :
        \/ NormalizeRest(r)
        \/ NormalizeEtl(r)
        \/ PostAccepted(r)
        \/ PostRejected(r)
        \/ PostUnavailable(r)
        \/ PostRaised(r)
        \/ EtlCommitted(r)
        \/ EtlRolledBack(r)

Spec == Init /\ [][Next]_vars

SpecConc == InitConc /\ [][Next]_vars

\* ------------------------------------------------------------------ properties
Finished(r) == pc[r] \in {"done", "failed"}

Transient == {"unavailable", "raised"}

\* C1: a write refused with a client error (4xx) is not retried: once the
\* latest attempt of a run was refused, the run has failed with that error, so
\* that no further attempt is made for that chunk or a later one.
C1_RefusedWriteAbortsRun ==
    \A r \in Runs :
        last[r].outcome = "rejected" =>
            pc[r] = "failed" /\ err[r].kind = "RuntimeError" /\ err[r].status = last[r].status

\* C2: every chunk is attempted at most 3 times, an attempt after the first
\* follows a transient failure of the previous attempt of the same chunk and a
\* sleep of 1 s (2nd attempt) or 2 s (3rd attempt), and an accepted chunk is
\* not attempted again.
C2_RetryPolicy ==
    [][\A r \in Runs :
          last'[r] # last[r] =>
             /\ last'[r].attempt <= 2
             /\ last'[r].attempt > 0 =>
                   /\ last[r].outcome \in Transient
                   /\ last[r].offset = last'[r].offset
                   /\ last[r].attempt = last'[r].attempt - 1
                   /\ last[r].slept = 2 ^ last[r].attempt
             /\ last[r].outcome = "accepted" => last'[r].offset > last[r].offset]_vars

\* The retry policy the code follows: as C2, with any failure retried.
RetryPolicyAnyFailure ==
    [][\A r \in Runs :
          last'[r] # last[r] =>
             /\ last'[r].attempt <= 2
             /\ last'[r].attempt > 0 =>
                   /\ last[r].outcome \in Transient \cup {"rejected"}
                   /\ last[r].offset = last'[r].offset
                   /\ last[r].attempt = last'[r].attempt - 1
                   /\ last[r].slept = 2 ^ last[r].attempt
             /\ last[r].outcome = "accepted" => last'[r].offset > last[r].offset]_vars

\* C3: a run whose chunk exhausted its attempts, the last of them failing
\* transiently, fails with an error that identifies the failing chunk by its
\* offset, and a summary is printed only when every chunk was accepted.
C3_ExhaustionIdentifiesChunk ==
    \A r \in Runs :
        path[r] = "rest" =>
            /\ (pc[r] = "failed" /\ last[r].outcome \in Transient) =>
                  "offset" \in DOMAIN err[r] /\ err[r].offset = i[r]
            /\ summary[r].printed => total[r] = Len(rows[r]) /\ i[r] >= Len(rows[r])

\* No chunk is dropped silently: a REST run prints a summary only when every
\* chunk was accepted, and ends failed otherwise.
NoChunkDropped ==
    \A r \in Runs :
        path[r] = "rest" =>
            /\ summary[r].printed => total[r] = Len(rows[r]) /\ i[r] >= Len(rows[r])
            /\ summary[r].printed <=> pc[r] = "done"
            /\ pc[r] = "failed" => last[r].attempt = 2 /\ last[r].offset = i[r]

\* C4: a run that failed at a chunk after the first reports a written count
\* equal to the number of rows of the chunks before it, which is the offset
\* of the failing chunk.
C4_FailureReportsCommittedRows ==
    \A r \in Runs :
        (path[r] = "rest" /\ pc[r] = "failed" /\ i[r] > 0) =>
            summary[r].printed /\ summary[r].upserted = i[r]

\* The chunks are consecutive and written in order: the offset is a multiple
\* of BATCH_SIZE within the rows, and the rows counted as written are those
\* of the chunks before it unless a response was lost.
ChunksInOrder ==
    \A r \in Runs :
        (path[r] = "rest" /\ pc[r] # "fetched") =>
            /\ i[r] % batch_size = 0
            /\ pc[r] \in {"upsert", "failed"} => i[r] < Len(rows[r])
            /\ total[r] = Min(i[r], Len(rows[r]))

NoFallback(b) ==
    \A k \in DOMAIN b : b[k].tradedatehour # None /\ b[k].tradedatehour # Unparseable

OneRowPerKey ==
    \A p \in Paths : \A x, y \in table[p] : SameKey(x, y) => x = y

C7_PathsAgree ==
    (pc[1] = "done" /\ pc[2] = "done" /\ path[1] # path[2] /\ raw[1] = raw[2]) =>
        table["rest"] = table["sql"]

Essentials(row) ==
    /\ row.tradedatehour # None
    /\ row.ticker # NoneStr
    /\ row.stockname # NoneStr
    /\ row.sourceurl # NoneStr

\* C8: on both paths every stored row has a tradedatehour, ticker, stockname
\* and sourceurl, and the normalized rows are the records that have the four
\* after coercion, the others being discarded.
C8_StoredRowsHaveEssentials ==
    /\ \A p \in Paths : \A row \in table[p] : Essentials(row)
    /\ \A r \in Runs :
          pc[r] = "done" =>
              /\ \A k \in DOMAIN rows[r] : Essentials(rows[r][k])
              /\ Len(rows[r]) =
                    Cardinality({k \in DOMAIN raw[r] :
                                    raw[r][k].ticker # NoneStr /\ raw[r][k].stockname # NoneStr
                                    /\ raw[r][k].sourceurl # NoneStr})

\* C8 on the REST path alone.
RestStoredRowsHaveEssentials ==
    /\ \A row \in table["rest"] : Essentials(row)
    /\ \A r \in Runs :
          (pc[r] # "fetched" /\ path[r] = "rest") =>
              /\ \A k \in DOMAIN rows[r] : Essentials(rows[r][k])
              /\ Len(rows[r]) =
                    Cardinality({k \in DOMAIN raw[r] :
                                    raw[r][k].ticker # NoneStr /\ raw[r][k].stockname # NoneStr
                                    /\ raw[r][k].sourceurl # NoneStr})

\* C9: on both paths the tradedatehour of every normalized row is not null
\* and lies on the hour.
C9_BucketOnTheHour ==
    \A r \in Runs :
        pc[r] # "fetched" =>
            \A k \in DOMAIN rows[r] :
                rows[r][k].tradedatehour # None /\ rows[r][k].tradedatehour % 60 = 0

\* C9 on the REST path alone.
RestBucketOnTheHour ==
    \A r \in Runs :
        (pc[r] # "fetched" /\ path[r] = "rest") =>
            \A k \in DOMAIN rows[r] :
                rows[r][k].tradedatehour # None /\ rows[r][k].tradedatehour % 60 = 0

\* C10: whatever the interleaving of the writes of two runs, the table holds
\* for every key written exactly the row of the write committed last for it.
C10_LastWriterWins ==
    \A p \in Paths :
        /\ \A key \in DOMAIN lastWrite[p] :
              {x \in table[p] : KeyOf(x) = key} = {lastWrite[p][key].row}
        /\ \A x \in table[p] : KeyOf(x) \in DOMAIN lastWrite[p]

C10_Witness ==
    /\ pc[1] = "done" /\ pc[2] = "done"
    /\ faults = 0
    /\ raw[1] # raw[2]
    /\ \E p \in Paths :
          \E ka, kb \in DOMAIN lastWrite[p] :
              /\ lastWrite[p][ka].run = 1 /\ lastWrite[p][kb].run = 2
              /\ \A r \in Runs : \A key \in {ka, kb} : \E x \in RowsOf(rows[r]) : KeyOf(x) = key

====
